---- MODULE Spec2Model ----
(***************************************************************************)
(* Constraint objects of the xpp trajectory optimizer and the factory that *)
(* builds them: ConvexityConstraint, SupportAreaConstraint,                *)
(* RangeOfMotionBox and CostConstraintFactory.                             *)
(*                                                                         *)
(* Numbers.  Time is counted in ticks (the providers discretise load and   *)
(* centre of pressure at one segment per tick).  Positions, spline         *)
(* coefficients and centre-of-pressure coordinates are integers.  Load     *)
(* fractions are fixed-point: the integer l stands for the load            *)
(* l / LoadScale, so the load 1.0 is LoadScale.  Every quantity that is a  *)
(* sum of loads or of load * position is therefore in units of             *)
(* 1 / LoadScale; a centre of pressure c entering such a sum is            *)
(* LoadScale * c.                                                          *)
(*                                                                         *)
(* Vectors are sequences; the C++ index i is position i + 1.               *)
(*                                                                         *)
(* Record constructors list their fields in the order TLC keeps them (the  *)
(* order in which the names first occur in the module), so that no worker  *)
(* ever has to reorder a record another worker is reading.                 *)
(***************************************************************************)
EXTENDS Integers, Sequences, FiniteSets, TLC

\* ---------------------------------------------------------------- bounds
\* largest total time of a motion, in ticks
MaxT == 3
\* largest sampling interval dt, in ticks
MaxDt == 2
\* largest coordinate / coefficient value the solver hands over
MaxPos == 1

\* ------------------------------------------------------ program constants
kDim2d == 2
X == 0
Y == 1
\* ContactBase::kFixedByStartStance, the id of a start-stance contact
kFixedByStartStance == -1

\* ------------------------------------------------------ provider set-up
\* number of end-effectors of the robot
NumEE == 2
\* polynomial coefficients per dimension of the CoM motion (p = a + b*t)
NumComCoeff == 2
\* denominator of the fixed-point load fractions
LoadScale == NumEE

\* ---------------------------------------------------------------- helpers
RECURSIVE SumSeq(_)
SumSeq(s) == IF s = <<>> THEN 0 ELSE Head(s) + SumSeq(Tail(s))

RECURSIVE Flatten(_)
Flatten(ss) == IF ss = <<>> THEN <<>> ELSE Head(ss) \o Flatten(Tail(ss))

Zeros(n) == [i \in 1..n |-> 0]

\* a sparse matrix: its shape and the (row, column, value) triplets in the
\* order they were inserted
Jacobian(m, n) == [rows |-> m, cols |-> n, triplets |-> <<>>]
EmptyJacobian == Jacobian(0, 0)
Triplet(r, c, v) == [row |-> r, col |-> c, val |-> v]
Insert(jac, ts) == [jac EXCEPT !.triplets = @ \o ts]
Coeff(jac, r, c) ==
    LET hit == {i \in DOMAIN jac.triplets :
                    jac.triplets[i].row = r /\ jac.triplets[i].col = c}
    IN  IF hit = {} THEN 0 ELSE jac.triplets[CHOOSE i \in hit : TRUE].val

Bound(lo, up) == [lower |-> lo, upper |-> up]
\* Bound::operator+= / -= shift both ends
BoundShift(b, d) == [lower |-> b.lower + d, upper |-> b.upper + d]
kEqualityBound_ == Bound(0, 0)

\* --------------------------------------------------- variable set ids
ComMotionID == "spline_coeff"
EEMotionID == "footholds"
EELoadID == "convexity_lambdas"
CopID == "center_of_pressure"
OtherID == "some_other_variable_set"
VarSetIDs == {ComMotionID, EEMotionID, EELoadID, CopID, OtherID}

\* ------------------------------------------------ EndeffectorLoad provider
EEsOrdered == [i \in 1..NumEE |-> i - 1]
GetSegmentID(t) == t
IndexDiscrete(k, ee) == NumEE * k + ee
LoadIndex(t, ee) == IndexDiscrete(GetSegmentID(t), ee)
MakeEELoad(T) == [num_segments |-> GetSegmentID(T) + 1,
                  lambdas |-> Zeros(NumEE * (GetSegmentID(T) + 1))]
LoadOptVarCount(ee_load) == Len(ee_load.lambdas)
\* Endeffectors<double> of segment k: one value per end-effector, ToImpl() is
\* the container itself and At(ee) its element ee
GetLoadValuesIdx(ee_load, k) ==
    [i \in 1..NumEE |-> ee_load.lambdas[IndexDiscrete(k, EEsOrdered[i]) + 1]]
GetLoadValues(ee_load, t) == GetLoadValuesIdx(ee_load, GetSegmentID(t))
At(container, ee) == container[ee + 1]
SetLoadParameters(ee_load, x) == [ee_load EXCEPT !.lambdas = x]

\* --------------------------------------------- EndeffectorsMotion provider
\* Every end-effector stands on its start-stance contact up to tick ee,
\* swings during tick ee + 1 and stands on its free foothold (id 0) after.
StartStance(ee) == <<ee, 1>>
InContact(ee, t) == t # ee + 1
ContactID(ee, t) == IF t <= ee THEN kFixedByStartStance ELSE 0
EEMotionIndex(ee, id, dim) == kDim2d * (ee + NumEE * id) + dim
MakeEEMotion(T) == [T |-> T, footholds |-> Zeros(NumEE * kDim2d)]
GetTotalTime(ee_motion) == ee_motion.T
EEMotionOptVarCount(ee_motion) == Len(ee_motion.footholds)
GetAllFreeContacts(ee_motion) == [i \in 1..NumEE |-> [ee |-> i - 1, id |-> 0]]
ContactOf(ee_motion, ee, t) ==
    [ee |-> ee,
     id |-> ContactID(ee, t),
     p  |-> IF ContactID(ee, t) = kFixedByStartStance
            THEN StartStance(ee)
            ELSE <<ee_motion.footholds[EEMotionIndex(ee, 0, X) + 1],
                   ee_motion.footholds[EEMotionIndex(ee, 0, Y) + 1]>>]
GetContacts(ee_motion, t) ==
    LET standing == SelectSeq(EEsOrdered, LAMBDA ee : InContact(ee, t))
    IN  [i \in 1..Len(standing) |-> ContactOf(ee_motion, standing[i], t)]
SetEEMotionParameters(ee_motion, x) == [ee_motion EXCEPT !.footholds = x]

\* ----------------------------------------------- CenterOfPressure provider
CopIndex(t, dim) == kDim2d * GetSegmentID(t) + dim
MakeCop(T) == [cop |-> Zeros(kDim2d * (GetSegmentID(T) + 1))]
CopOptVarCount(cop) == Len(cop.cop)
GetCop(cop, t) == <<cop.cop[CopIndex(t, X) + 1], cop.cop[CopIndex(t, Y) + 1]>>
GetJacobianWrtCop(cop, t, dim) == <<Triplet(0, CopIndex(t, dim), 1)>>
SetCopParameters(cop, x) == [cop EXCEPT !.cop = x]

\* ------------------------------------------------------ ComMotion provider
ComIndex(dim, c) == NumComCoeff * dim + c
MakeComMotion == [coeff |-> Zeros(kDim2d * NumComCoeff)]
GetTotalFreeCoeff(com) == Len(com.coeff)
GetBase(com, t) ==
    <<com.coeff[ComIndex(X, 0) + 1] + com.coeff[ComIndex(X, 1) + 1] * t,
      com.coeff[ComIndex(Y, 0) + 1] + com.coeff[ComIndex(Y, 1) + 1] * t>>
\* d position(dim, t) / d coefficients: the basis values 1 and t
GetComJacobian(com, t, dim) ==
    <<Triplet(0, ComIndex(dim, 0), 1), Triplet(0, ComIndex(dim, 1), t)>>
SetComParameters(com, x) == [com EXCEPT !.coeff = x]

\* ------------------------------------------ the solver's variable vectors
\* OptimizationVariables: one block per variable set.  The blocks range over
\* small families that hold valid and invalid values.
\* loads: a < NumEE: all load on end-effector (a + k) % NumEE in segment k;
\*        a = NumEE: a ramp whose segment sums differ and are not 1;
\*        a = NumEE + 1: every end-effector carries 1 / NumEE
LoadValue(a, k, ee) ==
    IF a < NumEE THEN (IF ee = (a + k) % NumEE THEN LoadScale ELSE 0)
    ELSE IF a = NumEE THEN (k + ee) % (LoadScale + 1)
    ELSE 1
LoadBlock(T, a) ==
    [i \in 1..(NumEE * (GetSegmentID(T) + 1)) |->
        LoadValue(a, (i - 1) \div NumEE, (i - 1) % NumEE)]
LoadBlocks(T) == {LoadBlock(T, a) : a \in 0..(NumEE + 1)}
\* footholds: end-effector ee at (p + ee, p)
FootholdBlock(p) ==
    [i \in 1..(NumEE * kDim2d) |->
        IF (i - 1) % kDim2d = X THEN p + ((i - 1) \div kDim2d) ELSE p]
FootholdBlocks == {FootholdBlock(p) : p \in 0..MaxPos}
\* centre of pressure: (s * k, cy) in segment k
CopBlock(T, s, cy) ==
    [i \in 1..(kDim2d * (GetSegmentID(T) + 1)) |->
        IF (i - 1) % kDim2d = X THEN s * ((i - 1) \div kDim2d) ELSE cy]
CopBlocks(T) == {CopBlock(T, s, cy) : s \in 0..MaxPos, cy \in 0..MaxPos}
\* CoM spline: x(t) = a + b * t, y(t) = b + a * t
ComBlock(a, b) == <<a, b, b, a>>
ComBlocks == {ComBlock(a, b) : a \in 0..MaxPos, b \in 0..MaxPos}

NoBlock == <<>>
OptVars(com, ee, load, cop) ==
    [ee |-> ee, cop |-> cop, com |-> com, load |-> load]
GetVariables(opt_var, id) ==
    CASE id = ComMotionID -> opt_var.com
      [] id = EEMotionID  -> opt_var.ee
      [] id = EELoadID    -> opt_var.load
      [] id = CopID       -> opt_var.cop

\* ===================================================== ConvexityConstraint
NoConvexity == [live |-> FALSE, ee_load_ |-> MakeEELoad(0),
                jac_ |-> EmptyJacobian]

ConvexityInit(ee_load) ==
    LET m == ee_load.num_segments
        n == LoadOptVarCount(ee_load)
        ones == Flatten([k1 \in 1..m |->
                    [i \in 1..Len(EEsOrdered) |->
                        Triplet(k1 - 1,
                                IndexDiscrete(k1 - 1, EEsOrdered[i]), 1)]])
    IN  [live |-> TRUE, ee_load_ |-> ee_load,
         jac_ |-> Insert(Jacobian(m, n), ones)]

\* variant: an UpdateVariables that also rewrites jac_
ConvexityUpdateVariablesRebuildJac(c, opt_var) ==
    [c EXCEPT
        !.ee_load_ = SetLoadParameters(@, GetVariables(opt_var, EELoadID)),
        !.jac_ = Insert(Jacobian(c.jac_.rows, c.jac_.cols),
                    [i \in 1..Len(c.jac_.triplets) |->
                        Triplet(c.jac_.triplets[i].row, c.jac_.triplets[i].col,
                                GetVariables(opt_var, EELoadID)[c.jac_.triplets[i].col + 1])])]
ConvexityUpdateVariables(c, opt_var) ==
    [c EXCEPT !.ee_load_ =
        SetLoadParameters(@, GetVariables(opt_var, EELoadID))]

\* variant: every row sums segment 0
ConvexityEvaluateConstraintSegment0(c) ==
    [k1 \in 1..c.jac_.rows |-> SumSeq(GetLoadValuesIdx(c.ee_load_, 0))]
ConvexityEvaluateConstraint(c) ==
    [k1 \in 1..c.jac_.rows |-> SumSeq(GetLoadValuesIdx(c.ee_load_, k1 - 1))]

ConvexityGetBounds(c) ==
    [k1 \in 1..c.jac_.rows |-> Bound(LoadScale, LoadScale)]

ConvexityGetJacobianWithRespectTo(c, var_set) ==
    IF var_set = EELoadID THEN c.jac_ ELSE EmptyJacobian

\* ========================================================= time grids
\* for (i = 0; i < floor(T/dt); ++i) { dts_.push_back(t); t += dt; }
RECURSIVE PushSamples(_, _, _, _, _)
PushSamples(dts, t, i, n, dt) ==
    IF i < n THEN PushSamples(Append(dts, t), t + dt, i + 1, n, dt) ELSE dts

\* =================================================== SupportAreaConstraint
NoSupportArea == [live |-> FALSE, ee_load_ |-> MakeEELoad(0),
                  ee_motion_ |-> MakeEEMotion(0), cop_ |-> MakeCop(0),
                  dts_ |-> <<>>]

\* SupportAreaInit without the dts_.clear()
SupportAreaInitNoClear(self, ee_motion, ee_load, cop, T, dt) ==
    [live |-> TRUE, ee_load_ |-> ee_load, ee_motion_ |-> ee_motion,
     cop_ |-> cop, dts_ |-> PushSamples(self.dts_, 0, 0, T \div dt, dt)]
SupportAreaInit(self, ee_motion, ee_load, cop, T, dt) ==
    [live |-> TRUE, ee_load_ |-> ee_load, ee_motion_ |-> ee_motion,
     cop_ |-> cop, dts_ |-> PushSamples(<<>>, 0, 0, T \div dt, dt)]

SupportAreaUpdateVariables(c, opt_var) ==
    [c EXCEPT
        !.ee_motion_ = SetEEMotionParameters(@, GetVariables(opt_var, EEMotionID)),
        !.ee_load_   = SetLoadParameters(@, GetVariables(opt_var, EELoadID)),
        !.cop_       = SetCopParameters(@, GetVariables(opt_var, CopID))]

\* variant: sums over all endeffectors, in stance or not
SupportAreaResidualAllEEs(c, t, dim) ==
    LET lambda_k == GetLoadValues(c.ee_load_, t)
    IN  SumSeq([i \in 1..NumEE |->
                   At(lambda_k, i - 1) * ContactOf(c.ee_motion_, i - 1, t).p[dim + 1]])
        - LoadScale * GetCop(c.cop_, t)[dim + 1]
\* LoadScale * (convex_contacts - cop) of one sample, dimension dim
SupportAreaResidual(c, t, dim) ==
    LET lambda_k == GetLoadValues(c.ee_load_, t)
        contacts == GetContacts(c.ee_motion_, t)
    IN  SumSeq([i \in 1..Len(contacts) |->
                   At(lambda_k, contacts[i].ee) * contacts[i].p[dim + 1]])
        - LoadScale * GetCop(c.cop_, t)[dim + 1]

SupportAreaEvaluateConstraint(c) ==
    [r \in 1..(Len(c.dts_) * kDim2d) |->
        SupportAreaResidual(c, c.dts_[((r - 1) \div kDim2d) + 1],
                            (r - 1) % kDim2d)]

SupportAreaGetBounds(c) ==
    [r \in 1..(Len(c.dts_) * kDim2d) |-> kEqualityBound_]

\* Constraint::GetNumberOfConstraints
SupportAreaGetNumberOfConstraints(c) == Len(SupportAreaGetBounds(c))

GetJacobianWithRespectToLambdas(c) ==
    LET m == SupportAreaGetNumberOfConstraints(c)
        n == LoadOptVarCount(c.ee_load_)
        PerContact(s, f) ==
            [d \in 1..kDim2d |->
                Triplet(kDim2d * (s - 1) + (d - 1),
                        LoadIndex(c.dts_[s], f.ee), f.p[d])]
        PerSample(s) ==
            LET contacts == GetContacts(c.ee_motion_, c.dts_[s])
            IN  Flatten([i \in 1..Len(contacts) |-> PerContact(s, contacts[i])])
    IN  Insert(Jacobian(m, n),
               Flatten([s \in 1..Len(c.dts_) |-> PerSample(s)]))

\* variant: writes entries for contacts fixed by the start stance too
GetJacobianWithRespectToContactsAllContacts(c) ==
    LET m == SupportAreaGetNumberOfConstraints(c)
        n == EEMotionOptVarCount(c.ee_motion_)
        PerContact(s, f) ==
            [d \in 1..kDim2d |->
                Triplet(kDim2d * (s - 1) + (d - 1),
                        EEMotionIndex(f.ee, 0, d - 1),
                        At(GetLoadValues(c.ee_load_, c.dts_[s]), f.ee))]
        PerSample(s) ==
            LET contacts == GetContacts(c.ee_motion_, c.dts_[s])
            IN  Flatten([i \in 1..Len(contacts) |-> PerContact(s, contacts[i])])
    IN  Insert(Jacobian(m, n),
               Flatten([s \in 1..Len(c.dts_) |-> PerSample(s)]))
GetJacobianWithRespectToContacts(c) ==
    LET m == SupportAreaGetNumberOfConstraints(c)
        n == EEMotionOptVarCount(c.ee_motion_)
        PerContact(s, f) ==
            IF f.id # kFixedByStartStance
            THEN [d \in 1..kDim2d |->
                    Triplet(kDim2d * (s - 1) + (d - 1),
                            EEMotionIndex(f.ee, f.id, d - 1),
                            At(GetLoadValues(c.ee_load_, c.dts_[s]), f.ee))]
            ELSE <<>>
        PerSample(s) ==
            LET contacts == GetContacts(c.ee_motion_, c.dts_[s])
            IN  Flatten([i \in 1..Len(contacts) |-> PerContact(s, contacts[i])])
    IN  Insert(Jacobian(m, n),
               Flatten([s \in 1..Len(c.dts_) |-> PerSample(s)]))

\* one row of a Jacobian assigned as factor * (a provider's row vector)
ScaledRow(row, factor, vec) ==
    [i \in 1..Len(vec) |-> Triplet(row, vec[i].col, factor * vec[i].val)]

GetJacobianWithRespectToCop(c) ==
    LET m == SupportAreaGetNumberOfConstraints(c)
        n == CopOptVarCount(c.cop_)
    IN  Insert(Jacobian(m, n),
               Flatten([r \in 1..(Len(c.dts_) * kDim2d) |->
                   ScaledRow(r - 1, -1,
                       GetJacobianWrtCop(c.cop_,
                                         c.dts_[((r - 1) \div kDim2d) + 1],
                                         (r - 1) % kDim2d))]))

SupportAreaGetJacobianWithRespectTo(c, var_set) ==
    LET jac1 == IF var_set = CopID
                THEN GetJacobianWithRespectToCop(c) ELSE EmptyJacobian
        jac2 == IF var_set = EEMotionID
                THEN GetJacobianWithRespectToContacts(c) ELSE jac1
    IN  IF var_set = EELoadID
        THEN GetJacobianWithRespectToLambdas(c) ELSE jac2

\* ======================================= RangeOfMotionConstraint / ...Box
\* motion parameters handed to the RangeOfMotionBox constructor
MaxDeviationFromNominal == <<2, 1>>
NominalStanceInBase(ee) == <<ee + 1, 2 * ee - 1>>

NoRangeOfMotionBox ==
    [live |-> FALSE, ee_motion_ |-> MakeEEMotion(0), dts_ |-> <<>>,
     com_motion_ |-> MakeComMotion, first_update_ |-> TRUE,
     jac_wrt_contacts_ |-> EmptyJacobian, jac_wrt_motion_ |-> EmptyJacobian]

RangeOfMotionInit(self, com_motion, ee_motion, dt) ==
    [self EXCEPT
        !.live = TRUE, !.com_motion_ = com_motion, !.ee_motion_ = ee_motion,
        !.dts_ = Append(PushSamples(<<>>, 0, 0,
                                    GetTotalTime(ee_motion) \div dt, dt),
                        GetTotalTime(ee_motion))]

\* the (sample time, contact) pairs in the order of the two nested loops
\* "for t in dts_, for c in GetContacts(t)"
SampledContacts(c) ==
    Flatten([s \in 1..Len(c.dts_) |->
        LET contacts == GetContacts(c.ee_motion_, c.dts_[s])
        IN  [i \in 1..Len(contacts) |-> [c |-> contacts[i], t |-> c.dts_[s]]]])

RangeOfMotionEvaluateConstraint(c) ==
    Flatten([j \in 1..Len(SampledContacts(c)) |->
        LET sc == SampledContacts(c)[j]
            geom_W == GetBase(c.com_motion_, sc.t)
            g == IF sc.c.id = kFixedByStartStance
                 THEN <<-geom_W[1], -geom_W[2]>>
                 ELSE <<sc.c.p[1] - geom_W[1], sc.c.p[2] - geom_W[2]>>
        IN  [d \in 1..kDim2d |-> g[d]]])

\* variant: no shift for a contact fixed by the start stance
RangeOfMotionBoundNoShift(contact, dim) ==
    LET f_nom_B == NominalStanceInBase(contact.ee)
        b0 == BoundShift(Bound(0, 0), f_nom_B[dim + 1])
    IN  [lower |-> b0.lower - MaxDeviationFromNominal[dim + 1],
         upper |-> b0.upper + MaxDeviationFromNominal[dim + 1]]
RangeOfMotionBound(contact, dim) ==
    LET f_nom_B == NominalStanceInBase(contact.ee)
        b0 == BoundShift(Bound(0, 0), f_nom_B[dim + 1])
        b1 == [lower |-> b0.lower - MaxDeviationFromNominal[dim + 1],
               upper |-> b0.upper + MaxDeviationFromNominal[dim + 1]]
    IN  IF contact.id = kFixedByStartStance
        THEN BoundShift(b1, -contact.p[dim + 1])
        ELSE b1

RangeOfMotionGetBounds(c) ==
    Flatten([j \in 1..Len(SampledContacts(c)) |->
        [d \in 1..kDim2d |-> RangeOfMotionBound(SampledContacts(c)[j].c, d - 1)]])

\* Constraint::GetNumberOfConstraints
RangeOfMotionGetNumberOfConstraints(c) == Len(RangeOfMotionGetBounds(c))

\* variant: the column ignores the dimension
SetJacobianWrtContactsNoDim(c) ==
    LET n_contacts == Len(GetAllFreeContacts(c.ee_motion_))
        m_constraints == RangeOfMotionGetNumberOfConstraints(c)
        sc == SampledContacts(c)
    IN  Insert(Jacobian(m_constraints, n_contacts),
               Flatten([j \in 1..Len(sc) |->
                   IF sc[j].c.id # kFixedByStartStance
                   THEN [d \in 1..kDim2d |->
                           Triplet(kDim2d * (j - 1) + (d - 1),
                                   EEMotionIndex(sc[j].c.ee, sc[j].c.id, d - 1),
                                   1)]
                   ELSE <<>>]))
SetJacobianWrtContacts(c) ==
    LET n_contacts == Len(GetAllFreeContacts(c.ee_motion_)) * kDim2d
        m_constraints == RangeOfMotionGetNumberOfConstraints(c)
        sc == SampledContacts(c)
    IN  Insert(Jacobian(m_constraints, n_contacts),
               Flatten([j \in 1..Len(sc) |->
                   IF sc[j].c.id # kFixedByStartStance
                   THEN [d \in 1..kDim2d |->
                           Triplet(kDim2d * (j - 1) + (d - 1),
                                   EEMotionIndex(sc[j].c.ee, sc[j].c.id, d - 1),
                                   1)]
                   ELSE <<>>]))

SetJacobianWrtMotion(c) ==
    LET n_motion == GetTotalFreeCoeff(c.com_motion_)
        m_constraints == RangeOfMotionGetNumberOfConstraints(c)
        sc == SampledContacts(c)
    IN  Insert(Jacobian(m_constraints, n_motion),
               Flatten([r \in 1..(Len(sc) * kDim2d) |->
                   ScaledRow(r - 1, -1,
                       GetComJacobian(c.com_motion_,
                                      sc[((r - 1) \div kDim2d) + 1].t,
                                      (r - 1) % kDim2d))]))

\* the provider part of UpdateVariables (lines 43-47)
RangeOfMotionSetProviders(c, opt_var) ==
    [c EXCEPT
        !.com_motion_ = SetComParameters(@, GetVariables(opt_var, ComMotionID)),
        !.ee_motion_  = SetEEMotionParameters(@, GetVariables(opt_var, EEMotionID))]

\* variant: assembles the blocks on every call
RangeOfMotionUpdateVariablesNoLatch(c, opt_var) ==
    LET u == RangeOfMotionSetProviders(c, opt_var)
    IN  [u EXCEPT !.jac_wrt_contacts_ = SetJacobianWrtContacts(u),
                  !.jac_wrt_motion_ = SetJacobianWrtMotion(u)]
\* variant: the latch trips on the second call
RangeOfMotionUpdateVariablesLateLatch(c, opt_var) ==
    LET u == RangeOfMotionSetProviders(c, opt_var)
    IN  IF ~c.first_update_
        THEN [u EXCEPT !.jac_wrt_contacts_ = SetJacobianWrtContacts(u),
                       !.jac_wrt_motion_ = SetJacobianWrtMotion(u)]
        ELSE [u EXCEPT !.first_update_ = FALSE]
RangeOfMotionUpdateVariables(c, opt_var) ==
    LET u == RangeOfMotionSetProviders(c, opt_var)
    IN  IF c.first_update_
        THEN [u EXCEPT !.jac_wrt_contacts_ = SetJacobianWrtContacts(u),
                       !.jac_wrt_motion_ = SetJacobianWrtMotion(u),
                       !.first_update_ = FALSE]
        ELSE u

RangeOfMotionGetJacobianWithRespectTo(c, var_set) ==
    IF var_set = EEMotionID THEN c.jac_wrt_contacts_
    ELSE IF var_set = ComMotionID THEN c.jac_wrt_motion_
    ELSE EmptyJacobian

\* =================================================== CostConstraintFactory
ConstraintNames == {"InitCom", "FinalCom", "JunctionCom", "Convexity",
                    "Dynamic", "RomBox", "FinalStance", "Obstacle"}
CostNames == {"ComCostID", "RangOfMotionCostID", "PolyCenterCostID",
              "FinalComCostID", "FinalStanceCostID"}
\* an enumerant value outside the switch
UnknownName == "not_an_enumerant"

\* StateLin2d: position, velocity and acceleration in X, Y
StateLin2d(p, v, a) == [v |-> v, p |-> p, a |-> a]
\* the boundary states and the geom-to-CoM offset handed to Init, X and Y,
\* one of each per (T, dt); the offset is zero for T = 0, dt = 1
InitialStates(T, dt) == StateLin2d(<<T, 1>>, <<dt, 0>>, <<0, 0>>)
FinalStates(T, dt) == StateLin2d(<<T + dt, T>>, <<0, 0>>, <<0, dt>>)
Offsets(T, dt) == <<dt - 1, T>>

FactoryInit(T, dt, offset, initial_state, final_state) ==
    [ee_load |-> MakeEELoad(T), ee_motion |-> MakeEEMotion(T),
     cop |-> MakeCop(T), com_motion |-> MakeComMotion,
     params |-> [dt_nodes_ |-> dt, offset_geom_to_com_ |-> offset],
     initial_geom_state_ |-> initial_state,
     final_geom_state_ |-> final_state]

\* state.p += offset.topRows<kDim2d>()
AddToPosition(state, offset) ==
    [state EXCEPT !.p = [d \in 1..kDim2d |-> state.p[d] + offset[d]]]
\* a LinearSplineEqualityConstraint after Init(equation, name): the
\* equation is kept as the call that made it and what was handed to it
LinearSplineEqualityConstraint(name, equation, state, derivatives) ==
    [state |-> state, name |-> name, equation |-> equation,
     derivatives |-> derivatives]
MakeInitialConstraint(f) ==
    LET initial_com_state ==
            AddToPosition(f.initial_geom_state_, f.params.offset_geom_to_com_)
    IN  <<LinearSplineEqualityConstraint("Initial XY", "MakeInitial",
              initial_com_state, <<"kPos", "kVel", "kAcc">>)>>
MakeFinalConstraint(f) ==
    <<LinearSplineEqualityConstraint("Final XY", "MakeFinal",
          f.final_geom_state_, <<"kPos", "kVel", "kAcc">>)>>

\* variant: the switch without the Obstacle case
GetConstraintSwitchNoObstacle(name) ==
    CASE name = "InitCom"     -> "MakeInitialConstraint"
      [] name = "FinalCom"    -> "MakeFinalConstraint"
      [] name = "JunctionCom" -> "MakeJunctionConstraint"
      [] name = "Convexity"   -> "MakeConvexityConstraint"
      [] name = "Dynamic"     -> "MakeDynamicConstraint"
      [] name = "RomBox"      -> "MakeRangeOfMotionBoxConstraint"
      [] name = "FinalStance" -> "MakeFinalStanceConstraint"
      [] OTHER                -> "throw"
\* the switch of GetConstraint: the builder a name is routed to
GetConstraintSwitch(name) ==
    CASE name = "InitCom"     -> "MakeInitialConstraint"
      [] name = "FinalCom"    -> "MakeFinalConstraint"
      [] name = "JunctionCom" -> "MakeJunctionConstraint"
      [] name = "Convexity"   -> "MakeConvexityConstraint"
      [] name = "Dynamic"     -> "MakeDynamicConstraint"
      [] name = "RomBox"      -> "MakeRangeOfMotionBoxConstraint"
      [] name = "FinalStance" -> "MakeFinalStanceConstraint"
      [] name = "Obstacle"    -> "MakeObstacleConstraint"
      [] OTHER                -> "throw"

\* the switch of GetCost
GetCostSwitch(name) ==
    CASE name = "ComCostID"          -> "MakeMotionCost"
      [] name = "RangOfMotionCostID" -> "MakeRangeOfMotionBoxConstraint"
      [] name = "PolyCenterCostID"   -> "MakePolygonCenterConstraint"
      [] name = "FinalComCostID"     -> "MakeFinalConstraint"
      [] name = "FinalStanceCostID"  -> "MakeFinalStanceConstraint"
      [] OTHER                       -> "throw"

\* What a builder hands back: [outcome, objs].  MakeFinalStanceConstraint and
\* MakeObstacleConstraint have an empty body in a function that returns a
\* ConstraintPtrVec by value: flowing off the end is undefined, so the call
\* may produce an empty list, a list of garbage, or a crash.
Returned(objs) == [objs |-> objs, outcome |-> "returned"]
Crashed == [objs |-> <<>>, outcome |-> "crashed"]
Garbage == "garbage"
BuilderResults(f, builder) ==
    CASE builder = "MakeInitialConstraint" ->
            {Returned(MakeInitialConstraint(f))}
      [] builder = "MakeFinalConstraint" ->
            {Returned(MakeFinalConstraint(f))}
      [] builder = "MakeJunctionConstraint" ->
            {Returned(<<"LinearSplineEqualityConstraint">>)}
      [] builder = "MakeDynamicConstraint" ->
            {Returned(<<"DynamicConstraint">>)}
      [] builder = "MakeRangeOfMotionBoxConstraint" ->
            {Returned(<<"RangeOfMotionBox">>)}
      [] builder = "MakeConvexityConstraint" ->
            {Returned(<<"SupportAreaConstraint", "ConvexityConstraint",
                        "ContactLoadConstraint">>)}
      [] builder = "MakePolygonCenterConstraint" ->
            {Returned(<<"PolygonCenterConstraint">>)}
      [] builder \in {"MakeFinalStanceConstraint", "MakeObstacleConstraint"} ->
            {Returned(<<>>), Returned(<<Garbage>>), Crashed}

NoResult ==
    [name |-> "none", objs |-> <<>>, outcome |-> "none", builder |-> "none",
     call |-> "none", what |-> "", front_of_empty |-> FALSE]

\* GetConstraint(name): the outcomes the call can have
GetConstraintResults(f, name) ==
    LET builder == GetConstraintSwitch(name)
    IN  IF builder = "throw"
        THEN {[name |-> name, objs |-> <<>>, outcome |-> "threw",
               builder |-> "none", call |-> "GetConstraint",
               what |-> "constraint not defined!", front_of_empty |-> FALSE]}
        ELSE {[name |-> name, objs |-> b.objs, outcome |-> b.outcome,
               builder |-> builder, call |-> "GetConstraint", what |-> "",
               front_of_empty |-> FALSE] : b \in BuilderResults(f, builder)}

\* ToCost(list.front()): front() of an empty vector is undefined, it crashes
\* or yields a garbage pointer that ToCost wraps
ToCostOfFront(name, builder, b) ==
    LET base == [name |-> name, objs |-> <<>>, outcome |-> "returned",
                 builder |-> builder, call |-> "GetCost", what |-> "",
                 front_of_empty |-> FALSE]
    IN  IF b.outcome = "crashed"
        THEN {[base EXCEPT !.outcome = "crashed"]}
        ELSE IF b.objs = <<>>
        THEN {[base EXCEPT !.outcome = "crashed", !.front_of_empty = TRUE],
              [base EXCEPT !.objs = <<<<"SoftConstraint", Garbage>>>>,
                           !.front_of_empty = TRUE]}
        ELSE {[base EXCEPT !.objs = <<<<"SoftConstraint", Head(b.objs)>>>>]}

\* GetCost(name): the outcomes the call can have
GetCostResults(f, name) ==
    LET builder == GetCostSwitch(name)
    IN  IF builder = "throw"
        THEN {[name |-> name, objs |-> <<>>, outcome |-> "threw",
               builder |-> "none", call |-> "GetCost",
               what |-> "cost not defined!", front_of_empty |-> FALSE]}
        ELSE IF builder = "MakeMotionCost"
        THEN {[name |-> name, objs |-> <<<<"QuadraticSplineCost">>>>,
               outcome |-> "returned", builder |-> builder,
               call |-> "GetCost", what |-> "", front_of_empty |-> FALSE]}
        ELSE UNION {ToCostOfFront(name, builder, b) :
                        b \in BuilderResults(f, builder)}

\* ================================================================== state
VARIABLES factory, result, cx, sa, rom, last_call
vars == <<factory, result, cx, sa, rom, last_call>>

NoOptVars == OptVars(NoBlock, NoBlock, NoBlock, NoBlock)
Call(op, opt_var) == [opt_var |-> opt_var, op |-> op]

Init ==
    /\ \E T \in 0..MaxT, dt \in 1..MaxDt :
        factory = FactoryInit(T, dt, Offsets(T, dt), InitialStates(T, dt),
                              FinalStates(T, dt))
    /\ result = NoResult
    /\ cx = NoConvexity
    /\ sa = NoSupportArea
    /\ rom = NoRangeOfMotionBox
    /\ last_call = Call("CostConstraintFactory::Init", NoOptVars)

\* the objects a successful builder leaves with the caller
BuiltConvexity(r) ==
    IF r.outcome = "returned" /\ r.builder = "MakeConvexityConstraint"
    THEN ConvexityInit(factory.ee_load)
    ELSE NoConvexity
BuiltSupportArea(r) ==
    IF r.outcome = "returned" /\ r.builder = "MakeConvexityConstraint"
    THEN SupportAreaInit(NoSupportArea, factory.ee_motion, factory.ee_load,
                         factory.cop, GetTotalTime(factory.ee_motion),
                         factory.params.dt_nodes_)
    ELSE NoSupportArea
BuiltRangeOfMotionBox(r) ==
    IF r.outcome = "returned" /\ r.builder = "MakeRangeOfMotionBoxConstraint"
    THEN RangeOfMotionInit(NoRangeOfMotionBox, factory.com_motion,
                           factory.ee_motion, factory.params.dt_nodes_)
    ELSE NoRangeOfMotionBox

GetConstraint(name) ==
    \E r \in GetConstraintResults(factory, name) :
        /\ result' = r
        /\ cx' = BuiltConvexity(r)
        /\ sa' = BuiltSupportArea(r)
        /\ rom' = BuiltRangeOfMotionBox(r)
        /\ last_call' = Call("CostConstraintFactory::GetConstraint", NoOptVars)
        /\ UNCHANGED factory

GetCost(name) ==
    \E r \in GetCostResults(factory, name) :
        /\ result' = r
        /\ cx' = NoConvexity
        /\ sa' = NoSupportArea
        /\ rom' = NoRangeOfMotionBox
        /\ last_call' = Call("CostConstraintFactory::GetCost", NoOptVars)
        /\ UNCHANGED factory

ConvexityUpdate ==
    /\ cx.live
    /\ \E load \in LoadBlocks(cx.ee_load_.num_segments - 1) :
        LET opt_var == OptVars(NoBlock, NoBlock, load, NoBlock)
        IN  /\ cx' = ConvexityUpdateVariables(cx, opt_var)
            /\ last_call' = Call("ConvexityConstraint::UpdateVariables", opt_var)
    /\ UNCHANGED <<factory, result, sa, rom>>

\* variant: the load provider is one object shared with the
\* ConvexityConstraint instead of a copy per constraint
SupportAreaUpdateSharedLoad ==
    /\ sa.live
    /\ \E ee \in FootholdBlocks,
          load \in LoadBlocks(sa.ee_load_.num_segments - 1),
          cop \in CopBlocks(sa.ee_load_.num_segments - 1) :
        LET opt_var == OptVars(NoBlock, ee, load, cop)
            updated == SupportAreaUpdateVariables(sa, opt_var)
        IN  /\ sa' = updated
            /\ cx' = IF cx.live
                     THEN [cx EXCEPT !.ee_load_ = updated.ee_load_]
                     ELSE cx
            /\ last_call' = Call("SupportAreaConstraint::UpdateVariables", opt_var)
    /\ UNCHANGED <<factory, result, rom>>
SupportAreaUpdate ==
    /\ sa.live
    /\ \E ee \in FootholdBlocks,
          load \in LoadBlocks(sa.ee_load_.num_segments - 1),
          cop \in CopBlocks(sa.ee_load_.num_segments - 1) :
        LET opt_var == OptVars(NoBlock, ee, load, cop)
        IN  /\ sa' = SupportAreaUpdateVariables(sa, opt_var)
            /\ last_call' = Call("SupportAreaConstraint::UpdateVariables", opt_var)
    /\ UNCHANGED <<factory, result, cx, rom>>

RangeOfMotionUpdate ==
    /\ rom.live
    /\ \E com \in ComBlocks, ee \in FootholdBlocks :
        LET opt_var == OptVars(com, ee, NoBlock, NoBlock)
        IN  /\ rom' = RangeOfMotionUpdateVariables(rom, opt_var)
            /\ last_call' = Call("RangeOfMotionConstraint::UpdateVariables", opt_var)
    /\ UNCHANGED <<factory, result, cx, sa>>

Next ==
    \/ \E name \in ConstraintNames \cup {UnknownName} : GetConstraint(name)
    \/ \E name \in CostNames \cup {UnknownName} : GetCost(name)
    \/ ConvexityUpdate
    \/ SupportAreaUpdate
    \/ RangeOfMotionUpdate

Spec == Init /\ [][Next]_vars

\* The lifecycle in which the caller calls Init again on a grid-holding
\* object that exists, with providers of any total time and any dt.
SupportAreaReInit ==
    /\ sa.live
    /\ \E T \in 0..MaxT, dt \in 1..MaxDt :
        sa' = SupportAreaInit(sa, MakeEEMotion(T), MakeEELoad(T), MakeCop(T),
                              T, dt)
    /\ last_call' = Call("SupportAreaConstraint::Init", NoOptVars)
    /\ UNCHANGED <<factory, result, cx, rom>>

RangeOfMotionReInit ==
    /\ rom.live
    /\ \E T \in 0..MaxT, dt \in 1..MaxDt :
        rom' = RangeOfMotionInit(rom, MakeComMotion, MakeEEMotion(T), dt)
    /\ last_call' = Call("RangeOfMotionConstraint::Init", NoOptVars)
    /\ UNCHANGED <<factory, result, cx, sa>>

NextReInit ==
    \/ \E name \in ConstraintNames \cup {UnknownName} : GetConstraint(name)
    \/ SupportAreaUpdate
    \/ RangeOfMotionUpdate
    \/ SupportAreaReInit
    \/ RangeOfMotionReInit

SpecReInit == Init /\ [][NextReInit]_vars

\* ================================================================= claims
UpdateOps == {"ConvexityConstraint::UpdateVariables",
              "SupportAreaConstraint::UpdateVariables",
              "RangeOfMotionConstraint::UpdateVariables"}

\* row r of jac times the vector vec
RowDot(jac, r, vec) ==
    SumSeq([c1 \in 1..jac.cols |-> Coeff(jac, r, c1 - 1) * vec[c1]])

\* C1: ConvexityConstraint.  For every segment k, EvaluateConstraint()[k] is
\* the sum of lambda(ee, k) over the end-effectors GetEEsOrdered() reports,
\* which are exactly the ones with a Jacobian entry in row k; GetBounds()[k]
\* is [1, 1]; the constraint holds exactly when the loads of k sum to 1.
C1_ConvexityResidualIsSegmentSum ==
    cx.live =>
        LET g == ConvexityEvaluateConstraint(cx)
            b == ConvexityGetBounds(cx)
            m == cx.ee_load_.num_segments
            jac == ConvexityGetJacobianWithRespectTo(cx, EELoadID)
            lambda(ee, k) == cx.ee_load_.lambdas[IndexDiscrete(k, ee) + 1]
        IN  /\ Len(g) = m
            /\ Len(b) = m
            /\ \A k \in 0..(m - 1) :
                LET ees == {EEsOrdered[i] : i \in 1..Len(EEsOrdered)}
                    sum == SumSeq([i \in 1..Len(EEsOrdered) |->
                                      lambda(EEsOrdered[i], k)])
                IN  /\ g[k + 1] = sum
                    /\ g[k + 1] = RowDot(jac, k, cx.ee_load_.lambdas)
                    /\ {c \in 0..(jac.cols - 1) : Coeff(jac, k, c) # 0}
                          = {IndexDiscrete(k, ee) : ee \in ees}
                    /\ b[k + 1] = Bound(LoadScale, LoadScale)
                    /\ (b[k + 1].lower <= g[k + 1] /\ g[k + 1] <= b[k + 1].upper)
                          <=> (sum = LoadScale)

\* a Convexity object updated with loads that satisfy one segment and
\* violate another
C1_Witness ==
    /\ cx.live
    /\ last_call.op = "ConvexityConstraint::UpdateVariables"
    /\ \E k1, k2 \in 1..cx.ee_load_.num_segments :
        /\ ConvexityEvaluateConstraint(cx)[k1] = LoadScale
        /\ ConvexityEvaluateConstraint(cx)[k2] # LoadScale

\* C2: ConvexityConstraint.  In every reachable state the Jacobian w.r.t.
\* the load set is the matrix Init built: one row per segment, one column
\* per load variable, 1 at (k, IndexDiscrete(k, ee)) and 0 elsewhere; no
\* UpdateVariables call changes it.
C2_ConvexityJacobianConstant ==
    cx.live =>
        LET jac == ConvexityGetJacobianWithRespectTo(cx, EELoadID)
            m == cx.ee_load_.num_segments
        IN  /\ jac = ConvexityInit(factory.ee_load).jac_
            /\ jac.rows = m
            /\ jac.cols = LoadOptVarCount(cx.ee_load_)
            /\ \A k \in 0..(m - 1), c \in 0..(jac.cols - 1) :
                Coeff(jac, k, c) =
                    IF \E ee \in 0..(NumEE - 1) : c = IndexDiscrete(k, ee)
                    THEN 1 ELSE 0

\* a Convexity object whose loads an UpdateVariables call has changed
C2_Witness ==
    /\ cx.live
    /\ last_call.op = "ConvexityConstraint::UpdateVariables"
    /\ cx.ee_load_.lambdas # factory.ee_load.lambdas
    /\ cx.ee_load_.num_segments >= 2

\* load-weighted sum of the contacts active at t, dimension dim
ActiveWeightedSum(c, t, dim) ==
    SumSeq([i \in 1..NumEE |->
        IF InContact(i - 1, t)
        THEN c.ee_load_.lambdas[LoadIndex(t, i - 1) + 1]
             * ContactOf(c.ee_motion_, i - 1, t).p[dim + 1]
        ELSE 0])

\* loads sum to 1, swinging end-effectors carry nothing and the centre of
\* pressure is the load-weighted centroid, at every sample
SupportAreaBalanced(c) ==
    \A s \in 1..Len(c.dts_) :
        LET t == c.dts_[s]
        IN  /\ SumSeq(GetLoadValues(c.ee_load_, t)) = LoadScale
            /\ \A ee \in 0..(NumEE - 1) :
                ~InContact(ee, t) => c.ee_load_.lambdas[LoadIndex(t, ee) + 1] = 0
            /\ \A dim \in {X, Y} :
                LoadScale * GetCop(c.cop_, t)[dim + 1] = ActiveWeightedSum(c, t, dim)

\* C3: SupportAreaConstraint.  The two residual entries of every sample t
\* are (sum over the contacts active at t of load * contact_xy) - CoP(t);
\* so when the loads sum to 1, inactive end-effectors carry 0 and CoP is the
\* load-weighted centroid, the residual is the zero vector; every bound is
\* the equality bound.
C3_SupportAreaResidual ==
    sa.live =>
        LET g == SupportAreaEvaluateConstraint(sa)
            b == SupportAreaGetBounds(sa)
        IN  /\ Len(g) = kDim2d * Len(sa.dts_)
            /\ Len(b) = Len(g)
            /\ \A s \in 1..Len(sa.dts_), dim \in {X, Y} :
                g[kDim2d * (s - 1) + dim + 1] =
                    ActiveWeightedSum(sa, sa.dts_[s], dim)
                    - LoadScale * GetCop(sa.cop_, sa.dts_[s])[dim + 1]
            /\ SupportAreaBalanced(sa) => \A r \in 1..Len(g) : g[r] = 0
            /\ \A r \in 1..Len(b) : b[r] = Bound(0, 0)

\* a balanced SupportArea state with a sample at which a leg swings
C3_Witness ==
    /\ sa.live
    /\ last_call.op = "SupportAreaConstraint::UpdateVariables"
    /\ SupportAreaBalanced(sa)
    /\ \E s \in 1..Len(sa.dts_), ee \in 0..(NumEE - 1) : ~InContact(ee, sa.dts_[s])

\* number of contacts sampled before sample s
RECURSIVE ContactsBefore(_, _)
ContactsBefore(c, s) ==
    IF s <= 1 THEN 0
    ELSE ContactsBefore(c, s - 1) + Len(GetContacts(c.ee_motion_, c.dts_[s - 1]))

\* C4: RangeOfMotionBox::GetBounds.  For every sample and every contact
\* active at it, in X and Y, a free contact is bounded by
\* [nominal - max_dev, nominal + max_dev] and a fixed-by-start-stance contact
\* by that interval minus its own coordinate; the bounds are in the order of
\* the entries of EvaluateConstraint.
C4_RangeOfMotionBounds ==
    rom.live =>
        LET b == RangeOfMotionGetBounds(rom)
            g == RangeOfMotionEvaluateConstraint(rom)
        IN  /\ Len(b) = Len(g)
            /\ Len(b) = kDim2d * ContactsBefore(rom, Len(rom.dts_) + 1)
            /\ \A s \in 1..Len(rom.dts_) :
                LET t == rom.dts_[s]
                    contacts == GetContacts(rom.ee_motion_, t)
                IN  \A i \in 1..Len(contacts), dim \in {X, Y} :
                    LET row == kDim2d * (ContactsBefore(rom, s) + i - 1) + dim + 1
                        c == contacts[i]
                        nom == NominalStanceInBase(c.ee)[dim + 1]
                        dev == MaxDeviationFromNominal[dim + 1]
                        base == GetBase(rom.com_motion_, t)[dim + 1]
                    IN  IF c.id = kFixedByStartStance
                        THEN /\ b[row] = Bound(nom - dev - c.p[dim + 1],
                                               nom + dev - c.p[dim + 1])
                             /\ g[row] = -base
                        ELSE /\ b[row] = Bound(nom - dev, nom + dev)
                             /\ g[row] = c.p[dim + 1] - base

\* an updated RangeOfMotionBox whose grid samples a fixed and a free contact
C4_Witness ==
    /\ rom.live
    /\ last_call.op = "RangeOfMotionConstraint::UpdateVariables"
    /\ \E i, j \in 1..Len(SampledContacts(rom)) :
        /\ SampledContacts(rom)[i].c.id = kFixedByStartStance
        /\ SampledContacts(rom)[i].c.p[1] # 0
        /\ SampledContacts(rom)[j].c.id # kFixedByStartStance

\* what a solver can observe of each constraint
ConvexityOutputs(c) ==
    <<ConvexityEvaluateConstraint(c), ConvexityGetBounds(c),
      [id \in VarSetIDs |-> ConvexityGetJacobianWithRespectTo(c, id)]>>
SupportAreaOutputs(c) ==
    <<SupportAreaEvaluateConstraint(c), SupportAreaGetBounds(c),
      [id \in VarSetIDs |-> SupportAreaGetJacobianWithRespectTo(c, id)]>>
RangeOfMotionOutputs(c) ==
    <<RangeOfMotionEvaluateConstraint(c), RangeOfMotionGetBounds(c),
      [id \in VarSetIDs |-> RangeOfMotionGetJacobianWithRespectTo(c, id)]>>

\* C5: idempotence of UpdateVariables.  For each constraint, calling
\* UpdateVariables(x) a second time with the same x changes neither
\* EvaluateConstraint nor GetBounds nor any GetJacobianWithRespectTo, also
\* when the first call was the object's very first update.
C5_UpdateVariablesIdempotent ==
    /\ (cx.live /\ last_call.op = "ConvexityConstraint::UpdateVariables") =>
          ConvexityOutputs(ConvexityUpdateVariables(cx, last_call.opt_var))
              = ConvexityOutputs(cx)
    /\ (sa.live /\ last_call.op = "SupportAreaConstraint::UpdateVariables") =>
          SupportAreaOutputs(SupportAreaUpdateVariables(sa, last_call.opt_var))
              = SupportAreaOutputs(sa)
    /\ (rom.live /\ last_call.op = "RangeOfMotionConstraint::UpdateVariables") =>
          RangeOfMotionOutputs(RangeOfMotionUpdateVariables(rom, last_call.opt_var))
              = RangeOfMotionOutputs(rom)

\* a RangeOfMotionBox right after an update with non-zero variables, its
\* Jacobians assembled
C5_Witness ==
    /\ rom.live
    /\ last_call.op = "RangeOfMotionConstraint::UpdateVariables"
    /\ last_call.opt_var.com # MakeComMotion.coeff
    /\ rom.jac_wrt_motion_.triplets # <<>>
    /\ rom.jac_wrt_contacts_.triplets # <<>>

\* every inserted entry lies inside the matrix
InRange(jac) ==
    \A i \in 1..Len(jac.triplets) :
        /\ jac.triplets[i].row \in 0..(jac.rows - 1)
        /\ jac.triplets[i].col \in 0..(jac.cols - 1)

Shaped(jac, m, n) == jac.rows = m /\ jac.cols = n /\ InRange(jac)

\* C6: Jacobian shape.  After Init and an UpdateVariables, the Jacobian
\* w.r.t. a variable set the constraint depends on has as many rows as
\* EvaluateConstraint() and GetBounds() have entries and as many columns as
\* the variable set has coefficients; for every other id it is the empty
\* 0 x 0 matrix.
C6_JacobianShape ==
    /\ cx.live =>
        LET m == Len(ConvexityEvaluateConstraint(cx))
            J(id) == ConvexityGetJacobianWithRespectTo(cx, id)
        IN  /\ Len(ConvexityGetBounds(cx)) = m
            /\ Shaped(J(EELoadID), m, LoadOptVarCount(cx.ee_load_))
            /\ \A id \in VarSetIDs \ {EELoadID} : J(id) = EmptyJacobian
    /\ sa.live =>
        LET m == Len(SupportAreaEvaluateConstraint(sa))
            J(id) == SupportAreaGetJacobianWithRespectTo(sa, id)
        IN  /\ Len(SupportAreaGetBounds(sa)) = m
            /\ Shaped(J(EELoadID), m, LoadOptVarCount(sa.ee_load_))
            /\ Shaped(J(EEMotionID), m, EEMotionOptVarCount(sa.ee_motion_))
            /\ Shaped(J(CopID), m, CopOptVarCount(sa.cop_))
            /\ \A id \in VarSetIDs \ {EELoadID, EEMotionID, CopID} :
                J(id) = EmptyJacobian
    /\ (rom.live /\ ~rom.first_update_) =>
        LET m == Len(RangeOfMotionEvaluateConstraint(rom))
            J(id) == RangeOfMotionGetJacobianWithRespectTo(rom, id)
        IN  /\ Len(RangeOfMotionGetBounds(rom)) = m
            /\ Shaped(J(EEMotionID), m, EEMotionOptVarCount(rom.ee_motion_))
            /\ Shaped(J(ComMotionID), m, GetTotalFreeCoeff(rom.com_motion_))
            /\ \A id \in VarSetIDs \ {EEMotionID, ComMotionID} :
                J(id) = EmptyJacobian

\* an updated RangeOfMotionBox with entries for free contacts in its
\* Jacobian
C6_Witness ==
    /\ rom.live
    /\ ~rom.first_update_
    /\ Len(RangeOfMotionEvaluateConstraint(rom)) > kDim2d
    /\ RangeOfMotionGetJacobianWithRespectTo(rom, EEMotionID).triplets # <<>>

NonDecreasing(dts) == \A i \in 1..(Len(dts) - 1) : dts[i] <= dts[i + 1]
\* the samples 0, dt, 2 dt, ... : floor(T / dt) of them
UniformSamples(T, dt) == [i \in 1..(T \div dt) |-> (i - 1) * dt]

\* C7 as stated: after Init with any total time >= 0 and any dt > 0 the
\* sample sequence of SupportAreaConstraint and of RangeOfMotionConstraint is
\* non-decreasing and starts with 0.  (An empty SupportArea grid is let
\* pass: it has no first element.)
C7_GridStartsAtZero ==
    /\ sa.live => /\ NonDecreasing(sa.dts_)
                  /\ sa.dts_ # <<>> => sa.dts_[1] = 0
    /\ rom.live => /\ NonDecreasing(rom.dts_)
                   /\ rom.dts_[1] = 0

GridShape ==
    /\ sa.live =>
        /\ NonDecreasing(sa.dts_)
        /\ \E dt \in 1..MaxDt :
            /\ sa.dts_ = UniformSamples(sa.ee_motion_.T, dt)
            /\ sa.ee_motion_.T >= dt => sa.dts_[1] = 0
            /\ sa.ee_motion_.T < dt => sa.dts_ = <<>>
    /\ rom.live =>
        /\ NonDecreasing(rom.dts_)
        /\ \E dt \in 1..MaxDt :
            /\ rom.dts_ = Append(UniformSamples(rom.ee_motion_.T, dt),
                                 rom.ee_motion_.T)
            /\ rom.ee_motion_.T >= dt => rom.dts_[1] = 0
            /\ rom.ee_motion_.T < dt => rom.dts_ = <<rom.ee_motion_.T>>

\* C7 amended: the grid is non-decreasing and is exactly the uniform samples
\* of the latest Init's arguments (plus the final sample T for
\* RangeOfMotion), whether that Init was the first or a later one; its first
\* element is 0 when T >= dt; when T < dt the SupportArea grid is empty and
\* the RangeOfMotion grid is the single sample T; UpdateVariables never
\* changes it.
C7_GridOfLatestInit ==
    /\ []GridShape
    /\ [][last_call'.op \in UpdateOps =>
            (sa'.dts_ = sa.dts_ /\ rom'.dts_ = rom.dts_)]_vars

\* a RangeOfMotionBox re-initialised with T < dt after it had a longer grid:
\* the grid is the single sample T, which is not 0
C7_Witness ==
    /\ rom.live
    /\ last_call.op = "RangeOfMotionConstraint::Init"
    /\ rom.dts_ = <<rom.ee_motion_.T>>
    /\ rom.ee_motion_.T > 0
    /\ ~rom.first_update_

\* the builder each name of the two switches belongs to
OwnBuilder(name) ==
    CASE name = "InitCom" -> "MakeInitialConstraint"
      [] name \in {"FinalCom", "FinalComCostID"} -> "MakeFinalConstraint"
      [] name = "JunctionCom" -> "MakeJunctionConstraint"
      [] name = "Convexity" -> "MakeConvexityConstraint"
      [] name = "Dynamic" -> "MakeDynamicConstraint"
      [] name \in {"RomBox", "RangOfMotionCostID"} ->
            "MakeRangeOfMotionBoxConstraint"
      [] name \in {"FinalStance", "FinalStanceCostID"} ->
            "MakeFinalStanceConstraint"
      [] name = "Obstacle" -> "MakeObstacleConstraint"
      [] name = "ComCostID" -> "MakeMotionCost"
      [] name = "PolyCenterCostID" -> "MakePolygonCenterConstraint"

NothingBuilt == ~cx.live /\ ~sa.live /\ ~rom.live

\* C8: factory dispatch.  GetConstraint / GetCost with a name outside their
\* switch end in the fatal error ("constraint not defined!" / "cost not
\* defined!") and build or return nothing; every recognised name is routed
\* to its own builder and never to that error.
C8_DispatchFailurePolicy ==
    /\ result.call = "GetConstraint" =>
        IF result.name \in ConstraintNames
        THEN result.builder = OwnBuilder(result.name) /\ result.outcome # "threw"
        ELSE /\ result.outcome = "threw"
             /\ result.what = "constraint not defined!"
             /\ result.builder = "none"
             /\ result.objs = <<>>
             /\ NothingBuilt
    /\ result.call = "GetCost" =>
        IF result.name \in CostNames
        THEN result.builder = OwnBuilder(result.name) /\ result.outcome # "threw"
        ELSE /\ result.outcome = "threw"
             /\ result.what = "cost not defined!"
             /\ result.builder = "none"
             /\ result.objs = <<>>
             /\ NothingBuilt

\* GetConstraint was called with a name outside the switch and threw
C8_Witness ==
    /\ result.call = "GetConstraint"
    /\ result.name = UnknownName
    /\ result.outcome = "threw"

\* C9: the unimplemented builders give a well-defined empty result:
\* GetConstraint(FinalStance) and GetConstraint(Obstacle) complete and
\* return an empty list, and GetCost(FinalStanceCostID) never takes an
\* element out of the empty list of MakeFinalStanceConstraint.
C9_UnimplementedBuildersEmpty ==
    /\ (result.call = "GetConstraint" /\ result.name \in {"FinalStance", "Obstacle"}) =>
          (result.outcome = "returned" /\ result.objs = <<>>)
    /\ (result.call = "GetCost" /\ result.name = "FinalStanceCostID") =>
          (result.outcome # "crashed" /\ ~result.front_of_empty)

\* C10: the RangeOfMotion Jacobian latch.  On one object, the two blocks
\* are assembled exactly once, by the first UpdateVariables call, from the
\* provider state that call set; nothing else assembles them; once the
\* latch has tripped it stays tripped and no later call (UpdateVariables
\* with any vector, or Init) changes what GetJacobianWithRespectTo returns.
C10_JacobianLatch ==
    [][(rom.live /\ rom'.live
         /\ last_call'.op # "CostConstraintFactory::GetConstraint") =>
        /\ (rom.first_update_
              /\ last_call'.op = "RangeOfMotionConstraint::UpdateVariables") =>
                /\ ~rom'.first_update_
                /\ rom'.jac_wrt_contacts_ = SetJacobianWrtContacts(rom')
                /\ rom'.jac_wrt_motion_ = SetJacobianWrtMotion(rom')
        /\ (rom.first_update_
              /\ last_call'.op # "RangeOfMotionConstraint::UpdateVariables") =>
                /\ rom'.first_update_
                /\ rom'.jac_wrt_contacts_ = EmptyJacobian
                /\ rom'.jac_wrt_motion_ = EmptyJacobian
        /\ ~rom.first_update_ =>
                /\ ~rom'.first_update_
                /\ \A id \in VarSetIDs :
                     RangeOfMotionGetJacobianWithRespectTo(rom', id)
                        = RangeOfMotionGetJacobianWithRespectTo(rom, id)
      ]_vars

\* a latched RangeOfMotionBox, updated again after a re-Init changed its
\* grid: the cached blocks are still the ones of the first assembly
C10_Witness ==
    /\ rom.live
    /\ ~rom.first_update_
    /\ last_call.op = "RangeOfMotionConstraint::UpdateVariables"
    /\ rom.jac_wrt_motion_.rows > 0
    /\ rom.jac_wrt_motion_ # SetJacobianWrtMotion(rom)

\* the free contacts active at sample s (1-based) of a SupportArea grid
FreeContactsAt(c, s) ==
    {ee \in 0..(NumEE - 1) :
        /\ InContact(ee, c.dts_[s])
        /\ ContactID(ee, c.dts_[s]) # kFixedByStartStance}

\* C11: SupportAreaConstraint Jacobian w.r.t. contact positions.  For every
\* sample and every free contact f active at it the block holds exactly the
\* entries (2 * sample + dim, Index(f.ee, f.id, dim)) = load(f.ee, t), dim
\* in {X, Y}; a contact fixed by the start stance contributes no entry;
\* there is no other entry, and no (row, column) is written twice.
C11_SupportAreaJacobianWrtContacts ==
    sa.live =>
        LET jac == GetJacobianWithRespectToContacts(sa)
            ts == jac.triplets
        IN  /\ \A s \in 1..Len(sa.dts_) : \A ee \in FreeContactsAt(sa, s) :
                \A dim \in {X, Y} :
                    \E i \in 1..Len(ts) :
                        ts[i] = Triplet(kDim2d * (s - 1) + dim,
                                        EEMotionIndex(ee, ContactID(ee, sa.dts_[s]), dim),
                                        sa.ee_load_.lambdas[LoadIndex(sa.dts_[s], ee) + 1])
            /\ \A i \in 1..Len(ts) :
                \E s \in 1..Len(sa.dts_) : \E ee \in FreeContactsAt(sa, s) :
                    \E dim \in {X, Y} :
                        /\ ts[i].row = kDim2d * (s - 1) + dim
                        /\ ts[i].col = EEMotionIndex(ee, ContactID(ee, sa.dts_[s]), dim)
            /\ \A i, j \in 1..Len(ts) :
                (ts[i].row = ts[j].row /\ ts[i].col = ts[j].col) => i = j

\* a SupportArea grid with a sample at which a free contact carries load and
\* a sample at which a contact fixed by the start stance carries load
C11_Witness ==
    /\ sa.live
    /\ last_call.op = "SupportAreaConstraint::UpdateVariables"
    /\ \E s \in 1..Len(sa.dts_) : \E ee \in FreeContactsAt(sa, s) :
          sa.ee_load_.lambdas[LoadIndex(sa.dts_[s], ee) + 1] > 0
    /\ \E s \in 1..Len(sa.dts_) : \E ee \in 0..(NumEE - 1) :
          /\ InContact(ee, sa.dts_[s])
          /\ ContactID(ee, sa.dts_[s]) = kFixedByStartStance
          /\ sa.ee_load_.lambdas[LoadIndex(sa.dts_[s], ee) + 1] > 0

\* the state the equality constraint at the head of the result was built from
HandedState == Head(result.objs).state
BuiltBy(builder) ==
    /\ result.call = "GetConstraint"
    /\ result.builder = builder
    /\ result.outcome = "returned"

\* C12: symmetric CoM offset.  MakeInitialConstraint builds its constraint
\* from the initial geometric state with offset_geom_to_com added to the
\* position, and MakeFinalConstraint builds its constraint (position,
\* velocity, acceleration) from the final geometric state with the same
\* offset added to the position: the state handed to MakeFinal is the
\* shifted CoM state.
C12_SymmetricComOffset ==
    /\ BuiltBy("MakeInitialConstraint") =>
        /\ Head(result.objs).equation = "MakeInitial"
        /\ HandedState = AddToPosition(factory.initial_geom_state_,
                                       factory.params.offset_geom_to_com_)
    /\ BuiltBy("MakeFinalConstraint") =>
        /\ Head(result.objs).equation = "MakeFinal"
        /\ Head(result.objs).derivatives = <<"kPos", "kVel", "kAcc">>
        /\ HandedState = AddToPosition(factory.final_geom_state_,
                                       factory.params.offset_geom_to_com_)

====
